---------------------------- MODULE Spec2Model ----------------------------
(***************************************************************************)
(* Model of the trade0 repository: the two grid strategies                 *)
(* (src/src/strategies/grid.py, src/src/strategies/simple_grid.py) and the *)
(* multi-source downloader (src/src/data/download_multi_source_data.py).   *)
(*                                                                         *)
(* Python floats are modelled as exact rationals <<n, d>> (d > 0, lowest   *)
(* terms); None is <<0, 0>>.  Fixed-point conversions (f"{x:.2f}",         *)
(* f"{x:.6f}") are modelled as the rounding they perform.                  *)
(***************************************************************************)
EXTENDS Integers, Sequences, FiniteSets, TLC

(***************************************************************************)
(* Rational arithmetic                                                     *)
(***************************************************************************)
Abs(x) == IF x < 0 THEN -x ELSE x

RECURSIVE GCD(_, _)
GCD(a, b) == IF b = 0 THEN a ELSE GCD(b, a % b)

Rat(n, d) ==
    LET g == GCD(Abs(n), Abs(d))
        s == IF d < 0 THEN -1 ELSE 1
    IN  <<(s * n) \div g, (s * d) \div g>>

R(i) == <<i, 1>>

NoneVal == <<0, 0>>

RAdd(a, b) ==
    LET g == GCD(a[2], b[2])
    IN  Rat(a[1] * (b[2] \div g) + b[1] * (a[2] \div g), (a[2] \div g) * b[2])

RNeg(a) == <<-a[1], a[2]>>

RSub(a, b) == RAdd(a, RNeg(b))

RMul(a, b) ==
    LET g1 == GCD(Abs(a[1]), b[2])
        g2 == GCD(Abs(b[1]), a[2])
    IN  Rat((a[1] \div g1) * (b[1] \div g2), (a[2] \div g2) * (b[2] \div g1))

RInv(a) == IF a[1] < 0 THEN <<-a[2], -a[1]>> ELSE <<a[2], a[1]>>

RDiv(a, b) == RMul(a, RInv(b))

RAbs(a) == <<Abs(a[1]), a[2]>>

RLt(a, b) ==
    LET g == GCD(a[2], b[2])
    IN  a[1] * (b[2] \div g) < b[1] * (a[2] \div g)

RGt(a, b) == RLt(b, a)

\* round-half-even of a rational to an integer (what a fixed-point format does)
RoundHalfEven(a) ==
    LET q == a[1] \div a[2]
        r == a[1] % a[2]
    IN  IF 2 * r < a[2] THEN q
        ELSE IF 2 * r > a[2] THEN q + 1
        ELSE IF q % 2 = 0 THEN q ELSE q + 1

\* round-half-even of (a * m) / d for a, m >= 0 and d > 0, by long division
RoundMulDiv(a, m, d) ==
    LET q == (a \div d) * m + ((a % d) * m) \div d
        r == ((a % d) * m) % d
    IN  IF 2 * r < d THEN q
        ELSE IF 2 * r > d THEN q + 1
        ELSE IF q % 2 = 0 THEN q ELSE q + 1

\* Price.from_str(f"{price:.2f}"): the price in cents
FormatPrice(price) == RoundHalfEven(RMul(price, R(100)))

\* Quantity.from_str(f"{quantity:.6f}") with quantity = amount / price:
\* the quantity in millionths (amount and price positive)
FormatQuantity(amount, price) ==
    LET a == RMul(amount, R(1000000))
    IN  RoundMulDiv(a[1], price[2], a[2] * price[1])

\* float(event.last_px), float(event.last_qty)
PxToFloat(cents) == Rat(cents, 100)

QtyToFloat(micro) == Rat(micro, 1000000)

\* (ask + bid) / 2 of a quote given in cents
MidPrice(q) == Rat(q.bid + q.ask, 200)

(***************************************************************************)
(* numpy.linspace(start, stop, num) with endpoint=True                     *)
(***************************************************************************)
\* variant for mutation: endpoint=False (the step divides by num, the stop is not hit)
linspace_no_endpoint(start, stop, num) ==
    IF num <= 0 THEN << >>
    ELSE LET step == RDiv(RSub(stop, start), R(num))
         IN  [i \in 1..num |-> RAdd(RMul(R(i - 1), step), start)]

linspace(start, stop, num) ==
    IF num <= 0 THEN << >>
    ELSE IF num = 1 THEN <<start>>
    ELSE LET step == RDiv(RSub(stop, start), R(num - 1))
         IN  [i \in 1..num |->
                IF i = num THEN stop
                ELSE RAdd(RMul(R(i - 1), step), start)]


(***************************************************************************)
(* Inputs shared by the two strategies                                     *)
(***************************************************************************)
\* quotes (bid, ask) in cents
Quotes ==
    { [bid |-> 4199900, ask |-> 4200100],     \* mid 42000.00
      [bid |-> 100050,  ask |-> 100070] }     \* mid  1000.60

\* cap on the number of orders a run of the model submits
MaxOrders == 5

OPEN == "open"

(***************************************************************************)
(* Simple Grid Strategy  (src/src/strategies/simple_grid.py)               *)
(***************************************************************************)
VARIABLES sg_cfg, sg_state, sg_grid_prices, sg_orders_placed, sg_orders, sg_last

sgVars == <<sg_cfg, sg_state, sg_grid_prices, sg_orders_placed, sg_orders, sg_last>>

\* SimpleGridStrategyConfig values the model runs with
SGConfigs ==
    { [lower_price |-> R(41500), upper_price |-> R(42500), grid_levels |-> 5,
       total_amount |-> R(1000)],
      [lower_price |-> R(41990), upper_price |-> R(42020), grid_levels |-> 4,
       total_amount |-> R(1000)],
      [lower_price |-> R(41500), upper_price |-> R(42500), grid_levels |-> 4,
       total_amount |-> R(600)] }

\* the 10 USDT buffer around the current price
SGBuffer == 10

SGInit ==
    /\ sg_cfg \in SGConfigs
    /\ sg_state = "READY"
    /\ sg_grid_prices = << >>
    /\ sg_orders_placed = FALSE
    /\ sg_orders = << >>
    /\ sg_last = [op |-> "init", mid |-> NoneVal, first |-> 1, placed |-> FALSE]

\* sg_last records the callback that ran last: its name, the mid price of its
\* quote, the index its first order would get, and whether it placed a batch
SGEvent(op) == [op |-> op, mid |-> NoneVal, first |-> Len(sg_orders) + 1, placed |-> FALSE]

\* on_start: subscribe to quotes, compute the grid prices
SG_on_start ==
    /\ sg_state = "READY"
    /\ sg_state' = "RUNNING"
    /\ sg_grid_prices' = linspace(sg_cfg.lower_price, sg_cfg.upper_price, sg_cfg.grid_levels)
    /\ sg_last' = SGEvent("on_start")
    /\ UNCHANGED <<sg_cfg, sg_orders_placed, sg_orders>>

\* variant for mutation: the symmetric variant that also sells above the current price
SG_order_side_symmetric(grid_price, current_price) ==
    IF RLt(grid_price, current_price) THEN "BUY"
    ELSE IF RGt(grid_price, current_price) THEN "SELL"
    ELSE "NONE"

\* the side of the order placed at a grid price that passed the buffer test
SG_order_side(grid_price, current_price) ==
    IF RLt(grid_price, current_price) THEN "BUY" ELSE "NONE"

\* abs(grid_price - current_price) < 10
SG_too_close(grid_price, current_price) ==
    RLt(RAbs(RSub(grid_price, current_price)), R(SGBuffer))

\* the loop of _place_initial_orders over grid_prices[i..]: the orders it submits
RECURSIVE SG_place_from(_, _, _, _)
SG_place_from(i, grid, current_price, amount_per_grid) ==
    IF i > Len(grid) THEN << >>
    ELSE LET p    == grid[i]
             rest == SG_place_from(i + 1, grid, current_price, amount_per_grid)
             side == SG_order_side(p, current_price)
         IN  IF SG_too_close(p, current_price) \/ side = "NONE" THEN rest
             ELSE << [side |-> side, level |-> p, px |-> FormatPrice(p),
                      qty |-> FormatQuantity(amount_per_grid, p),
                      status |-> OPEN] >> \o rest

_place_initial_orders(tick) ==
    LET current_price   == MidPrice(tick)
        amount_per_grid == RDiv(sg_cfg.total_amount, R(sg_cfg.grid_levels))
    IN  SG_place_from(1, sg_grid_prices, current_price, amount_per_grid)

\* variant for mutation: the flag is not consulted
SG_first_quote_always(orders_placed) == TRUE

\* if not self.orders_placed
SG_first_quote(orders_placed) == ~ orders_placed

\* on_quote_tick: the first quote places the batch, later ones do nothing
SG_on_quote_tick(tick) ==
    /\ sg_state = "RUNNING"
    /\ Len(sg_orders) <= MaxOrders
    /\ sg_last' = [op |-> "on_quote_tick", mid |-> MidPrice(tick),
                   first |-> Len(sg_orders) + 1, placed |-> SG_first_quote(sg_orders_placed)]
    /\ IF SG_first_quote(sg_orders_placed)
       THEN /\ sg_orders_placed' = TRUE
            /\ sg_orders' = sg_orders \o _place_initial_orders(tick)
       ELSE UNCHANGED <<sg_orders_placed, sg_orders>>
    /\ UNCHANGED <<sg_cfg, sg_state, sg_grid_prices>>

\* on_order_filled: logs only; the venue has filled the order
SG_on_order_filled(id) ==
    /\ id \in 1..Len(sg_orders)
    /\ sg_orders[id].status = OPEN
    /\ sg_orders' = [sg_orders EXCEPT ![id].status = "filled"]
    /\ sg_last' = SGEvent("on_order_filled")
    /\ UNCHANGED <<sg_cfg, sg_state, sg_grid_prices, sg_orders_placed>>

\* on_stop: cancel_all_orders
SG_on_stop ==
    /\ sg_state = "RUNNING"
    /\ sg_state' = "STOPPED"
    /\ sg_orders' = [i \in 1..Len(sg_orders) |->
                        IF sg_orders[i].status = OPEN
                        THEN [sg_orders[i] EXCEPT !.status = "canceled"]
                        ELSE sg_orders[i]]
    /\ sg_last' = SGEvent("on_stop")
    /\ UNCHANGED <<sg_cfg, sg_grid_prices, sg_orders_placed>>

\* reset: super().reset() and orders_placed = False
SG_reset ==
    /\ sg_state = "STOPPED"
    /\ sg_state' = "READY"
    /\ sg_orders_placed' = FALSE
    /\ sg_last' = SGEvent("reset")
    /\ UNCHANGED <<sg_cfg, sg_grid_prices, sg_orders>>

(***************************************************************************)
(* Grid Strategy  (src/src/strategies/grid.py)                             *)
(***************************************************************************)
VARIABLES cfg, gs_state, upper_price, lower_price, grid_prices, grid_orders,
          filled_grids, active_orders, total_trades, winning_trades, total_pnl,
          timers, cache_quote, orders, win_rate_logged

gsVars == <<cfg, gs_state, upper_price, lower_price, grid_prices, grid_orders,
            filled_grids, active_orders, total_trades, winning_trades, total_pnl,
            timers, cache_quote, orders, win_rate_logged>>

\* GridStrategyConfig values the model runs with (arithmetic spacing)
GSConfigs ==
    { [lower_price |-> R(41500), upper_price |-> R(42500), grid_levels |-> 5,
       total_amount |-> R(100), price_range_ratio |-> Rat(1, 10)],
      [lower_price |-> Rat(9976, 10), upper_price |-> Rat(10012, 10), grid_levels |-> 4,
       total_amount |-> R(10), price_range_ratio |-> Rat(1, 10)],
      [lower_price |-> NoneVal, upper_price |-> NoneVal, grid_levels |-> 3,
       total_amount |-> R(60), price_range_ratio |-> Rat(1, 10)] }

\* cache.quote_tick() before any quote was received
NoQuote == [bid |-> 0, ask |-> 0]

\* price improvements (cents) a fill may come with
PxImprove == {0, 50}

EmptyMap == [x \in {} |-> 0]

GSInit ==
    /\ cfg \in GSConfigs
    /\ gs_state = "READY"
    /\ upper_price = cfg.upper_price
    /\ lower_price = cfg.lower_price
    /\ grid_prices = << >>
    /\ grid_orders = EmptyMap
    /\ filled_grids = {}
    /\ active_orders = EmptyMap
    /\ total_trades = 0
    /\ winning_trades = 0
    /\ total_pnl = 0
    /\ timers = {}
    /\ cache_quote = NoQuote
    /\ orders = << >>
    /\ win_rate_logged = NoneVal

\* variant for mutation: the call that sets the timer is missing
set_timer_missing(ts, name) == ts

\* clock.set_timer(name=..., interval=..., callback=self._initialize_grid):
\* the timer is among the clock's timers from then on (a name that is
\* taken already leaves the set as it is)
set_timer(ts, name) == ts \cup {name}

\* on_start: subscribe, set the "init_grid" timer
on_start ==
    /\ gs_state = "READY"
    /\ gs_state' = "RUNNING"
    /\ timers' = set_timer(timers, "init_grid")
    /\ UNCHANGED <<cfg, upper_price, lower_price, grid_prices, grid_orders, filled_grids,
                   active_orders, total_trades, winning_trades, total_pnl, cache_quote,
                   orders, win_rate_logged>>

\* _calculate_grid_prices, arithmetic branch
_calculate_grid_prices(lower, upper, levels) == linspace(lower, upper, levels)

\* _place_grid_order on a book st = [orders, grid_orders, active_orders].
\* An order records, besides what the venue holds (side, px in cents, qty
\* and leaves in millionths, status), the grid price it was placed for
\* (level) and the fill it answers (reply_to, fill_px, fill_qty; 0 for none).
_place_grid_order(st, price, side, amount) ==
    LET id  == Len(st.orders) + 1
        qty == FormatQuantity(amount, price)
    IN  [orders        |-> Append(st.orders,
                               [side |-> side, level |-> price, px |-> FormatPrice(price),
                                qty |-> qty, leaves |-> qty, status |-> OPEN,
                                reply_to |-> 0, fill_px |-> NoneVal, fill_qty |-> 0]),
         grid_orders   |-> (price :> id) @@ st.grid_orders,
         active_orders |-> (id :> price) @@ st.active_orders]

\* variant for mutation: the skip of the levels next to the price is missing
too_close_never(grid_price, current_price) == FALSE

\* abs(grid_price - current_price) / current_price < 0.001
too_close(grid_price, current_price) ==
    RLt(RDiv(RAbs(RSub(grid_price, current_price)), current_price), Rat(1, 1000))

\* the loop of _setup_initial_orders over grid[i..]
RECURSIVE setup_from(_, _, _, _, _)
setup_from(i, grid, st, current_price, amount_per_grid) ==
    IF i > Len(grid) THEN st
    ELSE LET p == grid[i]
             st1 == IF too_close(p, current_price) THEN st
                    ELSE IF RLt(p, current_price)
                         THEN _place_grid_order(st, p, "BUY", amount_per_grid)
                    ELSE IF RGt(p, current_price)
                         THEN _place_grid_order(st, p, "SELL", amount_per_grid)
                    ELSE st
         IN  setup_from(i + 1, grid, st1, current_price, amount_per_grid)

_setup_initial_orders(grid, st, current_price) ==
    setup_from(1, grid, st, current_price, RDiv(cfg.total_amount, R(cfg.grid_levels)))

Book == [orders |-> orders, grid_orders |-> grid_orders, active_orders |-> active_orders]

\* variant for mutation: the range is derived at every initialization
bounds_unset_always(upper, lower) == TRUE

\* self.upper_price is None or self.lower_price is None
bounds_unset(upper, lower) == upper = NoneVal \/ lower = NoneVal

\* _initialize_grid, the callback of both timers
_initialize_grid(name) ==
    /\ gs_state = "RUNNING"
    /\ name \in timers
    /\ IF cache_quote = NoQuote
       THEN \* no quote yet: set the retry timer (a timer whose name is taken
            \* is refused by the clock, which changes nothing)
            /\ timers' = set_timer(timers, "init_grid_retry")
            /\ UNCHANGED <<upper_price, lower_price, grid_prices, grid_orders,
                           active_orders, orders>>
       ELSE LET current_price == MidPrice(cache_quote)
                derive == bounds_unset(upper_price, lower_price)
                price_range == RMul(current_price, cfg.price_range_ratio)
                up == IF derive THEN RAdd(current_price, RDiv(price_range, R(2)))
                      ELSE upper_price
                lo == IF derive THEN RSub(current_price, RDiv(price_range, R(2)))
                      ELSE lower_price
                grid == _calculate_grid_prices(lo, up, cfg.grid_levels)
                st == _setup_initial_orders(grid, Book, current_price)
            IN  /\ Len(orders) + cfg.grid_levels <= MaxOrders
                /\ upper_price' = up
                /\ lower_price' = lo
                /\ grid_prices' = grid
                /\ orders' = st.orders
                /\ grid_orders' = st.grid_orders
                /\ active_orders' = st.active_orders
                /\ UNCHANGED timers
    /\ UNCHANGED <<cfg, gs_state, filled_grids, total_trades, winning_trades, total_pnl,
                   cache_quote, win_rate_logged>>

\* "if target_price:" -- None and 0.0 are falsy
Truthy(x) == x # NoneVal /\ x[1] # 0

MinOf(S) == CHOOSE x \in S : \A y \in S : x <= y

MaxOf(S) == CHOOSE x \in S : \A y \in S : x >= y

\* _find_next_grid_price: the first grid price past the threshold that has no
\* entry in grid_orders, scanning upwards ("up") or downwards
_find_next_grid_price(current_price, direction) ==
    LET up   == {i \in DOMAIN grid_prices :
                    /\ RGt(grid_prices[i], RMul(current_price, Rat(1001, 1000)))
                    /\ grid_prices[i] \notin DOMAIN grid_orders}
        down == {i \in DOMAIN grid_prices :
                    /\ RLt(grid_prices[i], RMul(current_price, Rat(999, 1000)))
                    /\ grid_prices[i] \notin DOMAIN grid_orders}
    IN  IF direction = "up"
        THEN (IF up = {} THEN NoneVal ELSE grid_prices[MinOf(up)])
        ELSE (IF down = {} THEN NoneVal ELSE grid_prices[MaxOf(down)])

\* variant for mutation: the re-posted order repeats the side of the fill
same_side(order_side) == order_side

\* the side of the order re-posted after a fill
opposite_side(order_side) == IF order_side = "BUY" THEN "SELL" ELSE "BUY"

\* variant for mutation: every fill counts as a win
winning_trades_counting(w) == w + 1

\* the statistics update of on_order_filled leaves winning_trades alone
winning_trades_on_fill(w) == w

\* the amount handed to _place_grid_order for the re-posted order
repost_amount(order_side, filled_qty, filled_price, target_price) ==
    IF order_side = "BUY" THEN RMul(filled_qty, target_price)
    ELSE RMul(filled_qty, filled_price)

\* variant for mutation: the test of the id is missing
is_tracked_always(active, id) == TRUE

\* event.client_order_id.value in self.active_orders
is_tracked(active, id) == id \in DOMAIN active

\* on_order_filled for the event (client_order_id, last_px, last_qty, order_side),
\* on a book st = [orders, grid_orders, active_orders, total_trades, winning_trades]
on_order_filled(st, id, last_px, last_qty, order_side) ==
    LET filled_price == PxToFloat(last_px)
        filled_qty   == QtyToFloat(last_qty)
        active1      == [k \in DOMAIN st.active_orders \ {id} |-> st.active_orders[k]]
        target_price == _find_next_grid_price(filled_price,
                            IF order_side = "BUY" THEN "up" ELSE "down")
        popped       == [st EXCEPT !.active_orders = active1,
                                   !.total_trades = st.total_trades + 1,
                                   !.winning_trades = winning_trades_on_fill(st.winning_trades)]
        placed       == _place_grid_order(popped, target_price, opposite_side(order_side),
                            repost_amount(order_side, filled_qty, filled_price, target_price))
    IN  IF ~ is_tracked(st.active_orders, id) THEN st
        ELSE IF Truthy(target_price)
             THEN [popped EXCEPT !.orders = [placed.orders EXCEPT
                                                ![Len(placed.orders)].reply_to = id,
                                                ![Len(placed.orders)].fill_px = filled_price,
                                                ![Len(placed.orders)].fill_qty = last_qty],
                                 !.grid_orders = placed.grid_orders,
                                 !.active_orders = placed.active_orders]
             ELSE popped

\* quantities one fill event may carry: all that is left, or half of a fresh order
FillQtys(o) ==
    {o.leaves} \cup (IF o.status = OPEN /\ o.leaves >= 2 THEN {o.leaves \div 2} ELSE {})

\* the venue fills (part of) an open order and the engine delivers the event
FillEvent(id, improve, last_qty) ==
    LET o       == orders[id]
        last_px == IF o.side = "BUY" THEN o.px - improve ELSE o.px + improve
        venue   == [orders EXCEPT ![id].leaves = o.leaves - last_qty,
                                  ![id].status = IF last_qty = o.leaves THEN "filled"
                                                 ELSE "partial"]
        st      == on_order_filled(
                       [orders |-> venue, grid_orders |-> grid_orders,
                        active_orders |-> active_orders, total_trades |-> total_trades,
                        winning_trades |-> winning_trades],
                       id, last_px, last_qty, o.side)
    IN  /\ gs_state = "RUNNING"
        /\ o.status \in {OPEN, "partial"}
        /\ last_qty \in FillQtys(o)
        /\ Len(orders) < MaxOrders
        /\ orders' = st.orders
        /\ grid_orders' = st.grid_orders
        /\ active_orders' = st.active_orders
        /\ total_trades' = st.total_trades
        /\ winning_trades' = st.winning_trades
        /\ UNCHANGED <<cfg, gs_state, upper_price, lower_price, grid_prices, filled_grids,
                       total_pnl, timers, cache_quote, win_rate_logged>>

\* on_quote_tick: the boundary test
\*   mid_price > self.upper_price * 0.95 or mid_price < self.lower_price * 1.05
\* raises TypeError where it multiplies a bound that is None (the second
\* comparison is evaluated only if the first is false)
on_quote_tick_raises(tick) ==
    \/ upper_price = NoneVal
    \/ /\ ~ RGt(MidPrice(tick), RMul(upper_price, Rat(95, 100)))
       /\ lower_price = NoneVal

\* a quote arrives: the cache keeps it and the strategy's on_quote_tick runs
QuoteArrives(tick) ==
    /\ gs_state = "RUNNING"
    /\ cache_quote' = tick
    /\ UNCHANGED <<cfg, gs_state, upper_price, lower_price, grid_prices, grid_orders,
                   filled_grids, active_orders, total_trades, winning_trades, total_pnl,
                   timers, orders, win_rate_logged>>

\* winning_trades / max(total_trades, 1) * 100
win_rate(w, t) == RMul(Rat(w, IF t > 1 THEN t ELSE 1), R(100))

\* on_stop: log the statistics, cancel all open orders; the clock's timers
\* are cancelled when the strategy stops
on_stop ==
    /\ gs_state = "RUNNING"
    /\ gs_state' = "STOPPED"
    /\ win_rate_logged' = win_rate(winning_trades, total_trades)
    /\ orders' = [i \in DOMAIN orders |->
                    IF orders[i].status \in {OPEN, "partial"}
                    THEN [orders[i] EXCEPT !.status = "canceled"]
                    ELSE orders[i]]
    /\ timers' = {}
    /\ UNCHANGED <<cfg, upper_price, lower_price, grid_prices, grid_orders, filled_grids,
                   active_orders, total_trades, winning_trades, total_pnl, cache_quote>>

\* variant for mutation: the map is left as it is
dict_clear_missing(d) == d

\* dict.clear()
dict_clear(d) == EmptyMap

\* reset: clear the maps and the counters
reset ==
    /\ gs_state = "STOPPED"
    /\ gs_state' = "READY"
    /\ grid_orders' = dict_clear(grid_orders)
    /\ filled_grids' = {}
    /\ active_orders' = dict_clear(active_orders)
    /\ total_trades' = 0
    /\ winning_trades' = 0
    /\ total_pnl' = 0
    /\ UNCHANGED <<cfg, upper_price, lower_price, grid_prices, timers, cache_quote,
                   orders, win_rate_logged>>

(***************************************************************************)
(* Grid generation as a function of its inputs                             *)
(***************************************************************************)
VARIABLES ls_lower, ls_upper, ls_num, ls_grid, ls_by

lsVars == <<ls_lower, ls_upper, ls_num, ls_grid, ls_by>>

\* largest level count the grid generation is exercised with
MaxLevels == 6

LSPrices == {R(100), R(101), Rat(2005, 2), R(41500), R(42500)}

LSInit ==
    /\ ls_lower \in LSPrices
    /\ ls_upper \in LSPrices
    /\ ls_num \in 0..MaxLevels
    /\ ls_grid = << >>
    /\ ls_by = "none"

\* GridStrategy._calculate_grid_prices on the drawn inputs
LS_calculate_grid_prices ==
    /\ ls_by = "none"
    /\ ls_grid' = _calculate_grid_prices(ls_lower, ls_upper, ls_num)
    /\ ls_by' = "GridStrategy"
    /\ UNCHANGED <<ls_lower, ls_upper, ls_num>>

\* the grid computation of SimpleGridStrategy.on_start on the drawn inputs
LS_on_start ==
    /\ ls_by = "none"
    /\ ls_grid' = linspace(ls_lower, ls_upper, ls_num)
    /\ ls_by' = "SimpleGridStrategy"
    /\ UNCHANGED <<ls_lower, ls_upper, ls_num>>

(***************************************************************************)
(* Multi-source downloader  (src/src/data/download_multi_source_data.py)   *)
(***************************************************************************)
VARIABLES ms_pc, ms_success, ms_df, ms_requested, ms_response, ms_returned, ms_files,
          ms_diag

msVars == <<ms_pc, ms_success, ms_df, ms_requested, ms_response, ms_returned, ms_files,
            ms_diag>>

Providers == <<"CryptoCompare", "CoinGecko", "Kraken", "Coinbase">>

\* what a provider's endpoint may answer:
\*   exception  the request raises, or the body is not JSON
\*   http_error a non-200 status (with a JSON error body)
\*   api_error  a 200 answer that reports an error or lacks the data field
\*   empty      a well-formed answer with no rows
\*   rows       a well-formed answer with rows of the documented shape
\*   bad_rows   a non-empty payload that is not of the documented row shape
Responses == {"exception", "http_error", "api_error", "empty", "rows", "bad_rows"}

\* download_cryptocompare_data: the status is not inspected; Response must be
\* "Success", anything raised is caught
download_cryptocompare_data(resp) ==
    CASE resp \in {"exception", "http_error", "api_error"} -> "None"
      [] resp = "empty" -> "Empty"
      [] resp = "rows" -> "Rows"
      [] OTHER -> "BadRows"

\* download_coingecko_data: 200 or None; data.get("prices", [])
download_coingecko_data(resp) ==
    CASE resp \in {"exception", "http_error"} -> "None"
      [] resp \in {"api_error", "empty"} -> "Empty"
      [] resp = "rows" -> "Rows"
      [] OTHER -> "BadRows"

\* download_kraken_data: an "error" list gives None, else the first result value
download_kraken_data(resp) ==
    CASE resp \in {"exception", "http_error", "api_error"} -> "None"
      [] resp = "empty" -> "Empty"
      [] resp = "rows" -> "Rows"
      [] OTHER -> "BadRows"

\* download_coinbase_data: 200 gives response.json() as it is, else None
download_coinbase_data(resp) ==
    CASE resp \in {"exception", "http_error"} -> "None"
      [] resp = "empty" -> "Empty"
      [] resp = "rows" -> "Rows"
      [] OTHER -> "BadRows"

download(k, resp) ==
    CASE k = 1 -> download_cryptocompare_data(resp)
      [] k = 2 -> download_coingecko_data(resp)
      [] k = 3 -> download_kraken_data(resp)
      [] OTHER -> download_coinbase_data(resp)

\* "if data:" -- None and the empty list are falsy
DataTruthy(data) == data \in {"Rows", "BadRows"}

\* convert_*_to_df: not data gives an empty table; rows of the documented
\* shape give the OHLCV table; anything else raises out of the converter
convert_to_df(data) ==
    IF ~ DataTruthy(data) THEN "empty_df"
    ELSE IF data = "Rows" THEN "df"
    ELSE "raise"

\* variant for mutation: every provider is tried, whatever the earlier ones gave
should_attempt_always(k, success) == TRUE

\* provider 1 is always tried; the later ones under "if not success:"
should_attempt(k, success) == k = 1 \/ ~ success

MSInit ==
    /\ ms_pc = 1
    /\ ms_success = FALSE
    /\ ms_df = "unbound"
    /\ ms_requested = << >>
    /\ ms_response = [k \in 1..4 |-> "unasked"]
    /\ ms_returned = [k \in 1..4 |-> "unasked"]
    /\ ms_files = << >>
    /\ ms_diag = FALSE

\* step k of main: try provider k (ms_pc = 0 is the exit, -1 an uncaught raise)
TryProvider(k) ==
    /\ ms_pc = k
    /\ IF should_attempt(k, ms_success)
       THEN \E resp \in Responses :
              LET data == download(k, resp)
                  df   == convert_to_df(data)
              IN  /\ ms_requested' = Append(ms_requested, Providers[k])
                  /\ ms_response' = [ms_response EXCEPT ![k] = resp]
                  /\ ms_returned' = [ms_returned EXCEPT ![k] = data]
                  /\ IF DataTruthy(data)
                     THEN IF df = "raise"
                          THEN /\ ms_pc' = -1
                               /\ UNCHANGED <<ms_success, ms_df>>
                          ELSE /\ ms_pc' = k + 1
                               /\ ms_df' = df
                               /\ ms_success' = TRUE
                     ELSE /\ ms_pc' = k + 1
                          /\ UNCHANGED <<ms_success, ms_df>>
       ELSE /\ ms_pc' = k + 1
            /\ UNCHANGED <<ms_success, ms_df, ms_requested, ms_response, ms_returned>>
    /\ UNCHANGED <<ms_files, ms_diag>>

OutputFiles == <<"BTCUSDT_ohlc.csv", "BTCUSDT_quotes.csv", "BTCUSDT_quotes.parquet">>

\* the end of main: save the three files, or print the diagnostic
SaveOrDiagnose ==
    /\ ms_pc = 5
    /\ ms_pc' = 0
    /\ IF ms_success /\ ms_df # "empty_df"
       THEN /\ ms_files' = OutputFiles
            /\ UNCHANGED ms_diag
       ELSE /\ ms_diag' = TRUE
            /\ UNCHANGED ms_files
    /\ UNCHANGED <<ms_success, ms_df, ms_requested, ms_response, ms_returned>>

(***************************************************************************)
(* Live launcher  (src/run_grid_strategy.py)                               *)
(***************************************************************************)
VARIABLES ln_pc, ln_mainnet, ln_config_exists, ln_config_ok, ln_env, ln_confirm,
          ln_effects, ln_end, ln_exit

lnVars == <<ln_pc, ln_mainnet, ln_config_exists, ln_config_ok, ln_env, ln_confirm,
            ln_effects, ln_end, ln_exit>>

\* what the operator may type at the mainnet prompt
Confirmations == {"yes", "YES", "Yes", "no", "NO", "y", "", " yes"}

\* variant for mutation: the answer is compared as typed
str_as_typed(c) == c

\* str.lower() on the answers above
str_lower(c) ==
    CASE c \in {"yes", "YES", "Yes"} -> "yes"
      [] c \in {"no", "NO"} -> "no"
      [] OTHER -> c

EnvNames == {"BYBIT_TESTNET_API_KEY", "BYBIT_TESTNET_API_SECRET",
             "BYBIT_API_KEY", "BYBIT_API_SECRET"}

\* a variable is absent, set to the empty string, or set to a credential
EnvValues == {"absent", "", "cred"}

\* os.getenv(name, "")
getenv(env, name) == IF env[name] = "absent" THEN "" ELSE env[name]

\* variant for mutation: the mainnet pair is read whatever the flag
key_names_mainnet(testnet) ==
    [key |-> "BYBIT_API_KEY", secret |-> "BYBIT_API_SECRET"]

\* the pair of variables create_trading_node_config reads
key_names(testnet) ==
    IF testnet THEN [key |-> "BYBIT_TESTNET_API_KEY", secret |-> "BYBIT_TESTNET_API_SECRET"]
    ELSE [key |-> "BYBIT_API_KEY", secret |-> "BYBIT_API_SECRET"]

\* variant for mutation: only a pair that is missing altogether is refused
credentials_missing_both(api_key, api_secret) == api_key = "" /\ api_secret = ""

\* not api_key or not api_secret
credentials_missing(api_key, api_secret) == api_key = "" \/ api_secret = ""

\* how the awaited node.run_async() may end: it returns, it raises an
\* Exception, the interrupt is raised in the coroutine, or the interrupt
\* reaches it as the cancellation of its task
SessionEnds == {"returns", "Exception", "KeyboardInterrupt", "CancelledError"}

\* variant for mutation: only the interrupt is handled
leaves_try_unhandled(end) == end \in {"Exception", "CancelledError"}

\* what leaves the try statement: except KeyboardInterrupt and except
\* Exception handle the first two, a CancelledError is a BaseException
leaves_try(end) == end = "CancelledError"

LNInit ==
    /\ ln_pc = "main"
    /\ ln_mainnet \in BOOLEAN
    /\ ln_config_exists \in BOOLEAN
    /\ ln_config_ok \in BOOLEAN
    /\ ln_env \in [EnvNames -> EnvValues]
    /\ ln_confirm = "unasked"
    /\ ln_effects = {"load_dotenv"}
    /\ ln_end = "none"
    /\ ln_exit = "none"

\* main, lines 194-202: the mainnet prompt
main_confirm ==
    /\ ln_pc = "main"
    /\ IF ln_mainnet
       THEN \E c \in Confirmations :
               /\ ln_confirm' = c
               /\ ln_effects' = ln_effects \cup {"prompt"}
               /\ IF str_lower(c) # "yes"
                  THEN ln_pc' = "done" /\ ln_exit' = "cancelled"
                  ELSE ln_pc' = "check_config" /\ UNCHANGED ln_exit
       ELSE /\ ln_pc' = "check_config"
            /\ UNCHANGED <<ln_confirm, ln_effects, ln_exit>>
    /\ UNCHANGED <<ln_mainnet, ln_config_exists, ln_config_ok, ln_env, ln_end>>

\* main, lines 204-213: the configuration file must exist; the log directory
\* is created and run_grid_strategy is entered
main_check_config ==
    /\ ln_pc = "check_config"
    /\ IF ln_config_exists
       THEN /\ ln_pc' = "load_config"
            /\ ln_effects' = ln_effects \cup {"makedirs"}
            /\ UNCHANGED ln_exit
       ELSE /\ ln_pc' = "done"
            /\ ln_exit' = "no_config_file"
            /\ UNCHANGED ln_effects
    /\ UNCHANGED <<ln_mainnet, ln_config_exists, ln_config_ok, ln_env, ln_confirm, ln_end>>

\* run_grid_strategy, lines 133-143: the file is read and the strategy
\* configuration built; a file that does not parse or lacks a key raises
load_strategy_config ==
    /\ ln_pc = "load_config"
    /\ ln_effects' = ln_effects \cup {"config_loaded"}
    /\ IF ln_config_ok
       THEN ln_pc' = "node_config" /\ UNCHANGED ln_exit
       ELSE ln_pc' = "raised" /\ ln_exit' = "config_error"
    /\ UNCHANGED <<ln_mainnet, ln_config_exists, ln_config_ok, ln_env, ln_confirm, ln_end>>

\* create_trading_node_config: the credentials are read and tested
create_trading_node_config ==
    LET names      == key_names(~ ln_mainnet)
        api_key    == getenv(ln_env, names.key)
        api_secret == getenv(ln_env, names.secret)
    IN  /\ ln_pc = "node_config"
        /\ ln_effects' = ln_effects \cup {"env_lookup"}
        /\ IF credentials_missing(api_key, api_secret)
           THEN ln_pc' = "raised" /\ ln_exit' = "ValueError"
           ELSE ln_pc' = "try" /\ UNCHANGED ln_exit
        /\ UNCHANGED <<ln_mainnet, ln_config_exists, ln_config_ok, ln_env, ln_confirm,
                       ln_end>>

\* the shutdown sequence the try statement ends with, for a session that
\* ended as `end`: its handler, the finally clause, and the way out
Shutdown(end) ==
    /\ ln_end' = end
    /\ ln_effects' = ln_effects
                       \cup (IF end = "Exception" THEN {"exception_logged"} ELSE {})
                       \cup (IF end = "KeyboardInterrupt" THEN {"stop_signal_logged"} ELSE {})
                       \cup {"stopped_logged"}
                       \cup (IF ln_pc = "running" THEN {} ELSE {"construct_failed"})
    /\ IF leaves_try(end)
       THEN ln_pc' = "raised" /\ ln_exit' = end
       ELSE ln_pc' = "done" /\ ln_exit' = "returned"

\* run_grid_strategy, lines 149-157: the node is constructed and its run is
\* awaited; a constructor that raises goes to the handlers at once
run_grid_strategy_try ==
    /\ ln_pc = "try"
    /\ \/ /\ ln_pc' = "running"
          /\ ln_effects' = ln_effects \cup {"node_constructed", "node_run"}
          /\ UNCHANGED <<ln_end, ln_exit>>
       \/ Shutdown("Exception")
    /\ UNCHANGED <<ln_mainnet, ln_config_exists, ln_config_ok, ln_env, ln_confirm>>

\* run_grid_strategy, lines 157-166: the awaited run ends
run_grid_strategy_ends ==
    /\ ln_pc = "running"
    /\ \E end \in SessionEnds : Shutdown(end)
    /\ UNCHANGED <<ln_mainnet, ln_config_exists, ln_config_ok, ln_env, ln_confirm>>

(***************************************************************************)
(* Real-data backtest: the grid bounds  (src/backtest_with_real_data.py)   *)
(***************************************************************************)
VARIABLES br_pc, br_mean, br_std, br_suggested, br_bounds

brVars == <<br_pc, br_mean, br_std, br_suggested, br_bounds>>

\* a float that is not a number (the standard deviation of a one-row series)
NaN == <<0, 0>>

IsNaN(x) == x[2] = 0

\* float addition and multiplication, NaN propagating
FAdd(a, b) == IF IsNaN(a) \/ IsNaN(b) THEN NaN ELSE RAdd(a, b)

FSub(a, b) == IF IsNaN(a) \/ IsNaN(b) THEN NaN ELSE RSub(a, b)

FMul(a, b) == IF IsNaN(a) \/ IsNaN(b) THEN NaN ELSE RMul(a, b)

\* a < b on floats: false when either is NaN
FLt(a, b) == ~ IsNaN(a) /\ ~ IsNaN(b) /\ RLt(a, b)

\* variant for mutation: no clamping, the first argument is taken
py_first(a, b) == a

\* the builtin min(a, b): b if b < a, else a
py_min(a, b) == IF FLt(b, a) THEN b ELSE a

\* the builtin max(a, b): b if b > a, else a
py_max(a, b) == IF FLt(a, b) THEN b ELSE a

\* the half-width the bounds are limited to
ClampOffset == 500

\* mean and standard deviation of the mid-price series of the quote file
BRMeans == {R(42000), Rat(83999, 2), R(30000), R(1000), Rat(5003, 5), R(500), R(100),
            Rat(1, 2)}

BRStds == {R(0), Rat(1, 100), R(200), Rat(1000, 3), Rat(100001, 300), R(800), R(5000), NaN}

BRInit ==
    /\ br_pc = "loaded"
    /\ br_mean \in BRMeans
    /\ br_std \in BRStds
    /\ br_suggested = [lower |-> NaN, upper |-> NaN]
    /\ br_bounds = [lower |-> NaN, upper |-> NaN]

\* analyze_price_range: mean -/+ 1.5 * std
analyze_price_range ==
    /\ br_pc = "loaded"
    /\ br_pc' = "analyzed"
    /\ br_suggested' = [lower |-> FSub(br_mean, FMul(Rat(3, 2), br_std)),
                        upper |-> FAdd(br_mean, FMul(Rat(3, 2), br_std))]
    /\ UNCHANGED <<br_mean, br_std, br_bounds>>

\* run_backtest_with_real_data, lines 149-155: the bounds given to the strategy
strategy_config_bounds ==
    /\ br_pc = "analyzed"
    /\ br_pc' = "configured"
    /\ br_bounds' = [upper |-> py_min(br_suggested.upper, FAdd(br_mean, R(ClampOffset))),
                     lower |-> py_max(br_suggested.lower, FSub(br_mean, R(ClampOffset)))]
    /\ UNCHANGED <<br_mean, br_std, br_suggested>>

(***************************************************************************)
(* Quote rows built by the generator and the downloaders                   *)
(* (src/prepare_data.py, src/download_binance_data.py,                     *)
(*  src/download_historical_data.py,                                       *)
(*  src/src/data/download_multi_source_data.py)                            *)
(***************************************************************************)
VARIABLES qr_src, qr_series, qr_rows

qrVars == <<qr_src, qr_series, qr_rows>>

\* candles the downloaders are fed: positive prices, non-negative volumes
QRCandles ==
    {[close |-> c, high |-> RAdd(c, w), low |-> c, volume |-> v] :
        c \in {R(42000), Rat(1, 100)}, w \in {R(0), R(100), R(1000)}, v \in {R(0), R(1000)}}

\* longest candle series the row construction is exercised with
MaxSeries == 2

QRSeries == UNION {[1..n -> QRCandles] : n \in 1..MaxSeries}

RECURSIVE SumTo(_, _, _)
SumTo(xs, from, to) == IF from > to THEN R(0) ELSE RAdd(xs[to], SumTo(xs, from, to - 1))

\* Series.mean()
Mean(xs) == RDiv(SumTo(xs, 1, Len(xs)), R(Len(xs)))

\* Series.rolling(window, min_periods).mean() at row i
RollingMean(xs, i, window, min_periods) ==
    LET from == IF i > window THEN i - window + 1 ELSE 1
    IN  IF i - from + 1 < min_periods THEN NaN
        ELSE RDiv(SumTo(xs, from, i), R(i - from + 1))

\* Series.fillna(value) at one element
FillNa(x, value) == IF IsNaN(x) THEN value ELSE x

\* Series.clip(lower, upper) at one element
Clip(x, lower, upper) ==
    IF IsNaN(x) THEN x
    ELSE IF RLt(x, lower) THEN lower
    ELSE IF RLt(upper, x) THEN upper
    ELSE x

\* the rolling window of the downloaders
Window == 60

Column(series, f) == [i \in DOMAIN series |-> series[i][f]]

\* download_binance_data.create_quote_ticks_from_klines
create_quote_ticks_from_klines(df) ==
    LET range  == [i \in DOMAIN df |-> RSub(df[i].high, df[i].low)]
        volume == Column(df, "volume")
        spread == [i \in DOMAIN df |->
                     Clip(FMul(FillNa(RollingMean(range, i, Window, Window), Mean(range)),
                               Rat(15, 1000)),
                          Rat(1, 2), R(5))]
        avg_volume == [i \in DOMAIN df |->
                         FillNa(RollingMean(volume, i, Window, Window), Mean(volume))]
    IN  [i \in DOMAIN df |->
            [bid_price |-> FSub(df[i].close, FMul(spread[i], Rat(1, 2))),
             ask_price |-> FAdd(df[i].close, FMul(spread[i], Rat(1, 2))),
             bid_size  |-> FMul(avg_volume[i], Rat(1, 1000)),
             ask_size  |-> FMul(avg_volume[i], Rat(1, 1000))]]

\* download_historical_data.convert_to_quote_ticks (the values of the rows)
convert_to_quote_ticks(df) ==
    [i \in DOMAIN df |->
        [bid_price |-> RSub(df[i].close, Rat(1, 2)),
         ask_price |-> RAdd(df[i].close, Rat(1, 2)),
         bid_size  |-> RMul(RDiv(df[i].volume, R(Len(df))), Rat(1, 10)),
         ask_size  |-> RMul(RDiv(df[i].volume, R(Len(df))), Rat(1, 10))]]

\* download_multi_source_data.create_quote_data_from_ohlc
create_quote_data_from_ohlc(df) ==
    LET volume == Column(df, "volume")
        spread == [i \in DOMAIN df |-> RMul(df[i].close, Rat(2, 10000))]
        avg_volume == [i \in DOMAIN df |->
                         IF RGt(SumTo(volume, 1, Len(volume)), R(0))
                         THEN RollingMean(volume, i, Window, 1)
                         ELSE Rat(1, 10)]
    IN  [i \in DOMAIN df |->
            [bid_price |-> RSub(df[i].close, RMul(spread[i], Rat(1, 2))),
             ask_price |-> RAdd(df[i].close, RMul(spread[i], Rat(1, 2))),
             bid_size  |-> FMul(avg_volume[i], Rat(1, 1000)),
             ask_size  |-> FMul(avg_volume[i], Rat(1, 1000))]]

\* prepare_data.generate_forex_data("BTCUSDT"), one row: the price of the
\* row, the two draws of normal(0, 0.0001) for bid and ask, the session
\* factor (1.5 from 8 to 16 h, else 0.7) and the two draws of the sizes
generate_forex_data(price, noise_bid, noise_ask, session_volatility, bid_size, ask_size) ==
    LET spread == R(1)
    IN  [bid_price |-> RMul(RSub(price, RMul(spread, Rat(1, 2))),
                            RAdd(R(1), RMul(noise_bid, session_volatility))),
         ask_price |-> RMul(RAdd(price, RMul(spread, Rat(1, 2))),
                            RAdd(R(1), RMul(noise_ask, session_volatility))),
         bid_size  |-> bid_size,
         ask_size  |-> ask_size]

\* prices of the random walk, draws of the noise (up to two standard
\* deviations), draws of the sizes (uniform on 0.01 .. 1.0)
SynthPrices == {Rat(84001, 2), Rat(82001, 2)}

SynthNoise == {Rat(-1, 5000), R(0), Rat(1, 5000)}

SynthSizes == {Rat(1, 100), Rat(1, 2)}

QRInit ==
    /\ qr_src \in {"Binance", "Bybit", "MultiSource", "Synthetic"}
    /\ qr_series \in IF qr_src = "Synthetic" THEN {<< >>} ELSE QRSeries
    /\ qr_rows = << >>

QR_binance ==
    /\ qr_src = "Binance" /\ qr_rows = << >>
    /\ qr_rows' = create_quote_ticks_from_klines(qr_series)
    /\ UNCHANGED <<qr_src, qr_series>>

QR_bybit ==
    /\ qr_src = "Bybit" /\ qr_rows = << >>
    /\ qr_rows' = convert_to_quote_ticks(qr_series)
    /\ UNCHANGED <<qr_src, qr_series>>

QR_multi_source ==
    /\ qr_src = "MultiSource" /\ qr_rows = << >>
    /\ qr_rows' = create_quote_data_from_ohlc(qr_series)
    /\ UNCHANGED <<qr_src, qr_series>>

QR_synthetic ==
    /\ qr_src = "Synthetic" /\ qr_rows = << >>
    /\ \E price \in SynthPrices, nb \in SynthNoise, na \in SynthNoise,
          sv \in {Rat(3, 2), Rat(7, 10)}, bs \in SynthSizes, as \in SynthSizes :
          qr_rows' = << generate_forex_data(price, nb, na, sv, bs, as) >>
    /\ UNCHANGED <<qr_src, qr_series>>

(***************************************************************************)
(* Timestamp index of the tables the downloaders persist                   *)
(* (src/download_binance_data.py, src/download_historical_data.py,         *)
(*  src/src/data/download_multi_source_data.py)                            *)
(***************************************************************************)
VARIABLES ix_src, ix_order, ix_pc, ix_start, ix_end, ix_all, ix_index

ixVars == <<ix_src, ix_order, ix_pc, ix_start, ix_end, ix_all, ix_index>>

\* one candle interval in milliseconds
Minute == 60000

\* candles the provider holds: open times Minute, 2 * Minute, ...
MaxCandles == 4

\* rows per page (limit=1000 in the requests)
PageLimit == 2

CandleTimes == {Minute * k : k \in 1..MaxCandles}

IXProviders == {"CryptoCompare", "CoinGecko", "Kraken", "Coinbase"}

\* ascending sequence of the n smallest elements of a set of integers
RECURSIVE Ascending(_, _)
Ascending(S, n) ==
    IF S = {} \/ n = 0 THEN << >>
    ELSE LET m == CHOOSE x \in S : \A y \in S : x <= y
         IN  <<m>> \o Ascending(S \ {m}, n - 1)

Reverse(q) == [i \in 1..Len(q) |-> q[Len(q) + 1 - i]]

\* what the provider answers to a request for at most limit candles from
\* start (to end, where the request names an end), in the provider's row order
ProviderPage(start, end, limit, order) ==
    LET rows == Ascending({t \in CandleTimes : t >= start /\ t <= end}, limit)
    IN  IF order = "asc" THEN rows ELSE Reverse(rows)

\* DataFrame.sort_values('timestamp')
sort_values(q) == SortSeq(q, LAMBDA a, b : a < b)

IXInit ==
    /\ ix_src \in {"Binance", "Bybit"} \cup IXProviders
    /\ ix_order \in {"asc", "desc"}
    /\ ix_pc = "download"
    /\ ix_start \in {Minute, Minute + 1, 2 * Minute}
    /\ ix_end \in {Minute * k : k \in 2..MaxCandles}
    /\ ix_all = << >>
    /\ ix_index = << >>

\* download_binance_data.download_all_historical_data, one turn of the loop
download_all_historical_data ==
    /\ ix_src = "Binance" /\ ix_pc = "download"
    /\ LET klines == ProviderPage(ix_start, ix_end, PageLimit, ix_order)
       IN  IF ix_start < ix_end /\ klines # << >>
           THEN /\ ix_all' = ix_all \o klines
                /\ ix_start' = klines[Len(klines)] + 1
                /\ ix_pc' = "download"
           ELSE /\ ix_pc' = "convert"
                /\ UNCHANGED <<ix_all, ix_start>>
    /\ UNCHANGED <<ix_src, ix_order, ix_end, ix_index>>

\* download_binance_data.main: klines_to_dataframe,
\* create_quote_ticks_from_klines (index=df.index), save_data
klines_to_dataframe ==
    /\ ix_src = "Binance" /\ ix_pc = "convert"
    /\ IF ix_all # << >>
       THEN ix_index' = ix_all /\ ix_pc' = "saved"
       ELSE ix_index' = ix_index /\ ix_pc' = "nothing"
    /\ UNCHANGED <<ix_src, ix_order, ix_start, ix_end, ix_all>>

\* download_historical_data.download_historical_data, one turn of the loop;
\* the request names no end, the provider holds candles up to now = end_time
download_historical_data ==
    /\ ix_src = "Bybit" /\ ix_pc = "download"
    /\ LET klines == ProviderPage(ix_start, Minute * MaxCandles, PageLimit, ix_order)
       IN  IF ix_start < ix_end /\ klines # << >>
           THEN /\ ix_all' = ix_all \o klines
                /\ ix_start' = klines[1] + Minute
                /\ ix_pc' = IF ix_all'[1] >= ix_end THEN "convert" ELSE "download"
           ELSE /\ ix_pc' = "convert"
                /\ UNCHANGED <<ix_all, ix_start>>
    /\ UNCHANGED <<ix_src, ix_order, ix_end, ix_index>>

\* download_historical_data.main: convert_to_quote_ticks, save_historical_data
convert_and_save ==
    /\ ix_src = "Bybit" /\ ix_pc = "convert"
    /\ IF ix_all # << >>
       THEN ix_index' = sort_values(ix_all) /\ ix_pc' = "saved"
       ELSE ix_index' = ix_index /\ ix_pc' = "nothing"
    /\ UNCHANGED <<ix_src, ix_order, ix_start, ix_end, ix_all>>

\* download_multi_source_data.main for the provider that gave data: one
\* request, convert_<provider>_to_df (set_index, no sort),
\* create_quote_data_from_ohlc (index=df.index), the three files
convert_provider_to_df ==
    /\ ix_src \in IXProviders /\ ix_pc = "download"
    /\ LET data == ProviderPage(ix_start, ix_end, MaxCandles, ix_order)
       IN  /\ ix_all' = data
           /\ IF data # << >>
              THEN ix_index' = data /\ ix_pc' = "saved"
              ELSE ix_index' = ix_index /\ ix_pc' = "nothing"
    /\ UNCHANGED <<ix_src, ix_order, ix_start, ix_end>>

(***************************************************************************)
(* Pagination loops of the Binance and the Bybit downloader                *)
(* (src/download_binance_data.py, src/download_historical_data.py)         *)
(***************************************************************************)
VARIABLES pg_src, pg_pc, pg_start, pg_end, pg_all, pg_requests, pg_responses

pgVars == <<pg_src, pg_pc, pg_start, pg_end, pg_all, pg_requests, pg_responses>>

\* requests one run of a loop is followed for
MaxRequests == 5

\* open times the provider may put in a row
MaxOpenTimes == 3

OpenTimes == {Minute * k : k \in 1..MaxOpenTimes}

\* what one request can come back with: a non-empty list of rows (each row
\* given by its open time, in whatever order and from whatever time the
\* provider chooses), an empty list, no data (the request failed or the
\* provider reported an error: None), a JSON value that is not a list, or
\* a non-empty list whose rows do not start with an open time
Pages == UNION {[1..n -> OpenTimes] : n \in 1..PageLimit}

BinanceResponses ==
    {[kind |-> "page", rows |-> rs] : rs \in Pages}
      \cup {[kind |-> k, rows |-> << >>] : k \in {"empty", "failed", "not_a_list", "bad_rows"}}

BybitResponses ==
    {[kind |-> "page", rows |-> rs] : rs \in Pages}
      \cup {[kind |-> k, rows |-> << >>] : k \in {"empty", "failed"}}

\* variant for mutation: the next window starts at the last row itself
next_start_binance_same(klines) == klines[Len(klines)]

\* current_start = klines[-1][0] + 1
next_start_binance(klines) == klines[Len(klines)] + 1

\* variant for mutation: the next window starts after the last row
next_start_bybit_last(klines) == klines[Len(klines)] + Minute

\* current_start = int(klines[0][0]) + 60000
next_start_bybit(klines) == klines[1] + Minute

PGInit ==
    /\ pg_src \in {"Binance", "Bybit"}
    /\ pg_pc = "loop"
    /\ pg_start \in {Minute, Minute + 1}
    /\ pg_end \in {Minute * 2, Minute * MaxOpenTimes}
    /\ pg_all = << >>
    /\ pg_requests = << >>
    /\ pg_responses = << >>

\* download_binance_data.download_all_historical_data: the loop test and,
\* if it passes, one request and what the body does with the response
Binance_loop(resp) ==
    /\ pg_src = "Binance" /\ pg_pc = "loop"
    /\ Len(pg_requests) < MaxRequests
    /\ IF pg_start < pg_end
       THEN /\ pg_requests' = Append(pg_requests, pg_start)
            /\ pg_responses' = Append(pg_responses, resp)
            /\ IF resp.kind = "page"
               THEN /\ pg_all' = pg_all \o resp.rows
                    /\ pg_start' = next_start_binance(resp.rows)
                    /\ pg_pc' = "loop"
               ELSE IF resp.kind = "bad_rows"
               THEN \* klines[-1][0] + 1 raises: the function returns nothing
                    /\ pg_pc' = "raised"
                    /\ UNCHANGED <<pg_all, pg_start>>
               ELSE /\ pg_pc' = "returned"
                    /\ UNCHANGED <<pg_all, pg_start>>
       ELSE /\ pg_pc' = "returned"
            /\ UNCHANGED <<pg_all, pg_start, pg_requests, pg_responses>>
    /\ UNCHANGED <<pg_src, pg_end>>

\* download_historical_data.download_historical_data: the loop test and, if
\* it passes, one request, the body and the early-exit check
Bybit_loop(resp) ==
    /\ pg_src = "Bybit" /\ pg_pc = "loop"
    /\ Len(pg_requests) < MaxRequests
    /\ IF pg_start < pg_end
       THEN /\ pg_requests' = Append(pg_requests, pg_start)
            /\ pg_responses' = Append(pg_responses, resp)
            /\ IF resp.kind = "page"
               THEN /\ pg_all' = pg_all \o resp.rows
                    /\ pg_start' = next_start_bybit(resp.rows)
                    /\ pg_pc' = IF pg_all'[1] >= pg_end THEN "returned" ELSE "loop"
               ELSE /\ pg_pc' = "returned"
                    /\ UNCHANGED <<pg_all, pg_start>>
       ELSE /\ pg_pc' = "returned"
            /\ UNCHANGED <<pg_all, pg_start, pg_requests, pg_responses>>
    /\ UNCHANGED <<pg_src, pg_end>>

(***************************************************************************)
(* Specifications: one per component, the other components standing still  *)
(***************************************************************************)
extraVars == <<lnVars, brVars, qrVars, ixVars, pgVars>>

vars == <<sgVars, gsVars, lsVars, msVars, extraVars>>

SGIdle ==
    /\ sg_cfg = [lower_price |-> NoneVal, upper_price |-> NoneVal, grid_levels |-> 0,
                 total_amount |-> NoneVal]
    /\ sg_state = "READY"
    /\ sg_grid_prices = << >>
    /\ sg_orders_placed = FALSE
    /\ sg_orders = << >>
    /\ sg_last = [op |-> "init", mid |-> NoneVal, first |-> 1, placed |-> FALSE]

GSIdle ==
    /\ cfg = [lower_price |-> NoneVal, upper_price |-> NoneVal, grid_levels |-> 0,
              total_amount |-> NoneVal, price_range_ratio |-> NoneVal]
    /\ gs_state = "READY"
    /\ upper_price = NoneVal
    /\ lower_price = NoneVal
    /\ grid_prices = << >>
    /\ grid_orders = EmptyMap
    /\ filled_grids = {}
    /\ active_orders = EmptyMap
    /\ total_trades = 0
    /\ winning_trades = 0
    /\ total_pnl = 0
    /\ timers = {}
    /\ cache_quote = NoQuote
    /\ orders = << >>
    /\ win_rate_logged = NoneVal

LSIdle ==
    /\ ls_lower = NoneVal
    /\ ls_upper = NoneVal
    /\ ls_num = 0
    /\ ls_grid = << >>
    /\ ls_by = "none"

MSIdle ==
    /\ ms_pc = 0
    /\ ms_success = FALSE
    /\ ms_df = "unbound"
    /\ ms_requested = << >>
    /\ ms_response = [k \in 1..4 |-> "unasked"]
    /\ ms_returned = [k \in 1..4 |-> "unasked"]
    /\ ms_files = << >>
    /\ ms_diag = FALSE

LNIdle ==
    /\ ln_pc = "done"
    /\ ln_mainnet = FALSE
    /\ ln_config_exists = FALSE
    /\ ln_config_ok = FALSE
    /\ ln_env = [n \in EnvNames |-> "absent"]
    /\ ln_confirm = "unasked"
    /\ ln_effects = {}
    /\ ln_end = "none"
    /\ ln_exit = "none"

BRIdle ==
    /\ br_pc = "idle"
    /\ br_mean = NaN
    /\ br_std = NaN
    /\ br_suggested = [lower |-> NaN, upper |-> NaN]
    /\ br_bounds = [lower |-> NaN, upper |-> NaN]

QRIdle ==
    /\ qr_src = "none"
    /\ qr_series = << >>
    /\ qr_rows = << >>

IXIdle ==
    /\ ix_src = "none"
    /\ ix_order = "asc"
    /\ ix_pc = "idle"
    /\ ix_start = 0
    /\ ix_end = 0
    /\ ix_all = << >>
    /\ ix_index = << >>

PGIdle ==
    /\ pg_src = "none"
    /\ pg_pc = "idle"
    /\ pg_start = 0
    /\ pg_end = 0
    /\ pg_all = << >>
    /\ pg_requests = << >>
    /\ pg_responses = << >>

ExtraIdle == LNIdle /\ BRIdle /\ QRIdle /\ IXIdle /\ PGIdle

CoreIdle == SGIdle /\ GSIdle /\ LSIdle /\ MSIdle

coreVars == <<sgVars, gsVars, lsVars, msVars>>

SimpleNext ==
    \/ SG_on_start /\ UNCHANGED <<gsVars, lsVars, msVars, extraVars>>
    \/ \E tick \in Quotes : SG_on_quote_tick(tick) /\ UNCHANGED <<gsVars, lsVars, msVars, extraVars>>
    \/ \E id \in DOMAIN sg_orders : SG_on_order_filled(id) /\ UNCHANGED <<gsVars, lsVars, msVars, extraVars>>
    \/ SG_on_stop /\ UNCHANGED <<gsVars, lsVars, msVars, extraVars>>
    \/ SG_reset /\ UNCHANGED <<gsVars, lsVars, msVars, extraVars>>

GridNext ==
    \/ on_start /\ UNCHANGED <<sgVars, lsVars, msVars, extraVars>>
    \/ \E name \in {"init_grid", "init_grid_retry"} :
          _initialize_grid(name) /\ UNCHANGED <<sgVars, lsVars, msVars, extraVars>>
    \/ \E tick \in Quotes : QuoteArrives(tick) /\ UNCHANGED <<sgVars, lsVars, msVars, extraVars>>
    \/ \E id \in DOMAIN orders, improve \in PxImprove :
          \E q \in FillQtys(orders[id]) :
             FillEvent(id, improve, q) /\ UNCHANGED <<sgVars, lsVars, msVars, extraVars>>
    \/ on_stop /\ UNCHANGED <<sgVars, lsVars, msVars, extraVars>>
    \/ reset /\ UNCHANGED <<sgVars, lsVars, msVars, extraVars>>

GridGenNext ==
    \/ LS_calculate_grid_prices /\ UNCHANGED <<sgVars, gsVars, msVars, extraVars>>
    \/ LS_on_start /\ UNCHANGED <<sgVars, gsVars, msVars, extraVars>>

MultiNext ==
    \/ \E k \in 1..4 : TryProvider(k) /\ UNCHANGED <<sgVars, gsVars, lsVars, extraVars>>
    \/ SaveOrDiagnose /\ UNCHANGED <<sgVars, gsVars, lsVars, extraVars>>

SimpleInit == SGInit /\ GSIdle /\ LSIdle /\ MSIdle /\ ExtraIdle

SpecSimple == SimpleInit /\ [][SimpleNext]_vars

GridInit == GSInit /\ SGIdle /\ LSIdle /\ MSIdle /\ ExtraIdle

SpecGrid == GridInit /\ [][GridNext]_vars

\* a firing of the initialization callback, by either timer
TimerFires == \E name \in {"init_grid", "init_grid_retry"} : _initialize_grid(name)

\* the states in which a firing can take place and changes the strategy:
\* the strategy runs and a timer is set; without a quote the firing sets
\* the retry timer, with a quote it places the orders (within MaxOrders)
TimerArmed ==
    /\ gs_state = "RUNNING"
    /\ timers # {}
    /\ IF cache_quote = NoQuote THEN "init_grid_retry" \notin timers
       ELSE Len(orders) + cfg.grid_levels <= MaxOrders

\* the same program under a clock whose timers do fire: weak fairness of
\* the firing, WF_gsVars(TimerFires), written out with TimerArmed for
\* ENABLED <<TimerFires>>_gsVars
SpecGridFair ==
    /\ GridInit /\ [][GridNext]_vars
    /\ ([]<>(~ TimerArmed) \/ []<><<TimerFires>>_gsVars)

GridGenInit == LSInit /\ SGIdle /\ GSIdle /\ MSIdle /\ ExtraIdle

SpecGridGen == GridGenInit /\ [][GridGenNext]_vars

MultiInit == MSInit /\ SGIdle /\ GSIdle /\ LSIdle /\ ExtraIdle

SpecMulti == MultiInit /\ [][MultiNext]_vars

restOfLauncher == <<coreVars, brVars, qrVars, ixVars, pgVars>>

LauncherNext ==
    \/ main_confirm /\ UNCHANGED restOfLauncher
    \/ main_check_config /\ UNCHANGED restOfLauncher
    \/ load_strategy_config /\ UNCHANGED restOfLauncher
    \/ create_trading_node_config /\ UNCHANGED restOfLauncher
    \/ run_grid_strategy_try /\ UNCHANGED restOfLauncher
    \/ run_grid_strategy_ends /\ UNCHANGED restOfLauncher

LauncherInit == LNInit /\ CoreIdle /\ BRIdle /\ QRIdle /\ IXIdle /\ PGIdle

SpecLauncher == LauncherInit /\ [][LauncherNext]_vars

restOfRange == <<coreVars, lnVars, qrVars, ixVars, pgVars>>

RangeNext ==
    \/ analyze_price_range /\ UNCHANGED restOfRange
    \/ strategy_config_bounds /\ UNCHANGED restOfRange

RangeInit == BRInit /\ CoreIdle /\ LNIdle /\ QRIdle /\ IXIdle /\ PGIdle

SpecRange == RangeInit /\ [][RangeNext]_vars

restOfQuoteRows == <<coreVars, lnVars, brVars, ixVars, pgVars>>

QuoteRowsNext ==
    \/ QR_binance /\ UNCHANGED restOfQuoteRows
    \/ QR_bybit /\ UNCHANGED restOfQuoteRows
    \/ QR_multi_source /\ UNCHANGED restOfQuoteRows
    \/ QR_synthetic /\ UNCHANGED restOfQuoteRows

QuoteRowsInit == QRInit /\ CoreIdle /\ LNIdle /\ BRIdle /\ IXIdle /\ PGIdle

SpecQuoteRows == QuoteRowsInit /\ [][QuoteRowsNext]_vars

restOfIndex == <<coreVars, lnVars, brVars, qrVars, pgVars>>

IndexNext ==
    \/ download_all_historical_data /\ UNCHANGED restOfIndex
    \/ klines_to_dataframe /\ UNCHANGED restOfIndex
    \/ download_historical_data /\ UNCHANGED restOfIndex
    \/ convert_and_save /\ UNCHANGED restOfIndex
    \/ convert_provider_to_df /\ UNCHANGED restOfIndex

IndexInit == IXInit /\ CoreIdle /\ LNIdle /\ BRIdle /\ QRIdle /\ PGIdle

SpecIndex == IndexInit /\ [][IndexNext]_vars

restOfPages == <<coreVars, lnVars, brVars, qrVars, ixVars>>

PagesNext ==
    \/ \E resp \in BinanceResponses : Binance_loop(resp) /\ UNCHANGED restOfPages
    \/ \E resp \in BybitResponses : Bybit_loop(resp) /\ UNCHANGED restOfPages

PagesInit == PGInit /\ CoreIdle /\ LNIdle /\ BRIdle /\ QRIdle /\ IXIdle

SpecPages == PagesInit /\ [][PagesNext]_vars

(***************************************************************************)
(* Grid Strategy: properties                                               *)
(***************************************************************************)
\* the order a step appended, and the fill it answers
NewOrder == orders'[Len(orders')]

Reposted == Len(orders') = Len(orders) + 1 /\ NewOrder.reply_to # 0

\* grid prices that carry an active order once the fill of order id has been
\* handled: a price some other tracked order sits at, or one at which the
\* venue still works an order (a partly filled order stays open there)
ActiveLevelsWithout(id) ==
    {active_orders[k] : k \in DOMAIN active_orders \ {id}}
    \cup {orders[j].level : j \in {k \in DOMAIN orders :
                                      orders'[k].status \in {OPEN, "partial"}}}

\* indices of the grid prices above P * 1.001 / below P * 0.999
AboveThreshold(P) ==
    {i \in DOMAIN grid_prices : RGt(grid_prices[i], RMul(P, Rat(1001, 1000)))}

BelowThreshold(P) ==
    {i \in DOMAIN grid_prices : RLt(grid_prices[i], RMul(P, Rat(999, 1000)))}

\* C1: after a BUY fill of quantity Q at price P for a tracked order, the SELL
\* order that is placed has quantity exactly Q and sits at the smallest grid
\* price above P * 1.001 that has no active order (a level whose order has
\* filled counts as having none).
C1_BuyFillRepost ==
    [][ (Reposted /\ orders[NewOrder.reply_to].side = "BUY") =>
            LET free == {i \in AboveThreshold(NewOrder.fill_px) :
                            grid_prices[i] \notin ActiveLevelsWithout(NewOrder.reply_to)}
            IN  /\ NewOrder.side = "SELL"
                /\ NewOrder.qty = NewOrder.fill_qty
                /\ free # {}
                /\ NewOrder.level = grid_prices[MinOf(free)] ]_vars

\* C2: after a SELL fill of quantity Q at price P for a tracked order, the BUY
\* order that is placed sits at the largest grid price below P * 0.999 that
\* has no active order, and its quantity is Q.
C2_SellFillRepost ==
    [][ (Reposted /\ orders[NewOrder.reply_to].side = "SELL") =>
            LET free == {i \in BelowThreshold(NewOrder.fill_px) :
                            grid_prices[i] \notin ActiveLevelsWithout(NewOrder.reply_to)}
            IN  /\ NewOrder.side = "BUY"
                /\ NewOrder.qty = NewOrder.fill_qty
                /\ free # {}
                /\ NewOrder.level = grid_prices[MaxOf(free)] ]_vars

\* a step in which on_order_filled handled the fill of a tracked order
TrackedFill(id) ==
    /\ id \in DOMAIN active_orders
    /\ total_trades' = total_trades + 1
    /\ orders'[id].leaves < orders[id].leaves

C4_WinRateZero ==
    /\ winning_trades = 0
    /\ win_rate_logged # NoneVal => win_rate_logged = R(0)

\* on_stop has logged the win rate of a run that had fills
C4_Witness == total_trades > 0 /\ win_rate_logged # NoneVal /\ gs_state = "STOPPED"

(***************************************************************************)
(* Properties of the Simple Grid Strategy                                  *)
(***************************************************************************)
\* the orders submitted by the callback that ran last
SGBatch == SubSeq(sg_orders, sg_last.first, Len(sg_orders))

\* the grid prices below mid that are not within the buffer of it
SGEligible(mid) ==
    {sg_grid_prices[i] : i \in {j \in DOMAIN sg_grid_prices :
        /\ RLt(sg_grid_prices[j], mid)
        /\ ~ RLt(RAbs(RSub(sg_grid_prices[j], mid)), R(SGBuffer))}}

SGExample ==
    [lower_price |-> R(41500), upper_price |-> R(42500), grid_levels |-> 5,
     total_amount |-> R(1000)]

\* C5: the batch placed on the first quote consists of one BUY order for each
\* grid price p with p < mid and |p - mid| >= 10 and of nothing else (for
\* 41500..42500, 5 levels, mid 42000: the levels 41500 and 41750), each at
\* its grid price written with two decimals; and no order of any reachable
\* state is a SELL.
C5_BuyBelowMid ==
    /\ \A i \in DOMAIN sg_orders : sg_orders[i].side = "BUY"
    /\ (sg_last.op = "on_quote_tick" /\ sg_last.placed) =>
          /\ {SGBatch[i].level : i \in DOMAIN SGBatch} = SGEligible(sg_last.mid)
          /\ Len(SGBatch) = Cardinality(SGEligible(sg_last.mid))
          /\ \A i \in DOMAIN SGBatch :
                /\ SGBatch[i].side = "BUY"
                /\ SGBatch[i].px = FormatPrice(SGBatch[i].level)
          /\ (sg_cfg = SGExample /\ sg_last.mid = R(42000)) =>
                /\ Len(sg_grid_prices) = 5
                /\ {SGBatch[i].level : i \in DOMAIN SGBatch} = {R(41500), R(41750)}
                /\ Len(SGBatch) = 2

\* the example batch has just been placed, in a run that follows one whose
\* orders were partly filled
C5_Witness ==
    /\ sg_last.op = "on_quote_tick" /\ sg_last.placed
    /\ sg_cfg = SGExample /\ sg_last.mid = R(42000)
    /\ {SGBatch[i].px : i \in DOMAIN SGBatch} = {4150000, 4175000}
    /\ \E i \in 1..(sg_last.first - 1) : sg_orders[i].status = "filled"

\* C6: a quote that arrives while orders_placed is set changes nothing of the
\* strategy; a quote that arrives while it is clear (the first one, or the
\* first after a reset) places the batch and sets it; reset clears the flag and
\* leaves the configuration, the grid prices and the orders as they are; and
\* nothing else changes the flag.
C6_FirstQuoteOnly ==
    [][ /\ (sg_last'.op = "on_quote_tick" /\ sg_orders_placed) =>
              /\ UNCHANGED <<sg_cfg, sg_state, sg_grid_prices, sg_orders_placed, sg_orders>>
              /\ ~ sg_last'.placed
        /\ (sg_last'.op = "on_quote_tick" /\ ~ sg_orders_placed) =>
              /\ sg_orders_placed'
              /\ sg_last'.placed
              /\ Len(sg_orders') = Len(sg_orders)
                                     + Cardinality(SGEligible(sg_last'.mid))
              /\ SubSeq(sg_orders', 1, Len(sg_orders)) = sg_orders
        /\ sg_last'.op = "reset" =>
              /\ ~ sg_orders_placed'
              /\ UNCHANGED <<sg_cfg, sg_grid_prices, sg_orders>>
        /\ sg_orders_placed' # sg_orders_placed =>
              sg_last'.op \in {"on_quote_tick", "reset"} ]_vars

\* a quote has just been ignored in a second run: the first run's orders are
\* cancelled, the second run's batch is open
C6_Witness ==
    /\ sg_last.op = "on_quote_tick" /\ ~ sg_last.placed
    /\ sg_orders_placed
    /\ \E i, j \in DOMAIN sg_orders :
          i < j /\ sg_orders[i].status = "canceled" /\ sg_orders[j].status = OPEN

(***************************************************************************)
(* Properties of the grid generation                                       *)
(***************************************************************************)
\* C7: for N >= 2 and lower < upper the grid of either strategy has N prices,
\* is non-decreasing, starts at lower, ends at upper, and every consecutive
\* difference is (upper - lower) / (N - 1).
C7_ArithmeticGrid ==
    (ls_by # "none" /\ ls_num >= 2 /\ RLt(ls_lower, ls_upper)) =>
        /\ Len(ls_grid) = ls_num
        /\ ls_grid[1] = ls_lower
        /\ ls_grid[ls_num] = ls_upper
        /\ \A i \in 1..(ls_num - 1) :
              /\ ~ RGt(ls_grid[i], ls_grid[i + 1])
              /\ RSub(ls_grid[i + 1], ls_grid[i])
                   = RDiv(RSub(ls_upper, ls_lower), R(ls_num - 1))

\* a grid whose step is not a whole number: 100..101 in 4 levels
C7_Witness ==
    /\ ls_by = "GridStrategy"
    /\ ls_lower = R(100) /\ ls_upper = R(101) /\ ls_num = 4
    /\ ls_grid = <<R(100), Rat(301, 3), Rat(302, 3), R(101)>>

(***************************************************************************)
(* Properties of the multi-source downloader                               *)
(***************************************************************************)
\* provider k was requested
Requested(k) == \E i \in DOMAIN ms_requested : ms_requested[i] = Providers[k]

\* the download function of provider k gave None or an empty list
GaveNothing(k) == ms_returned[k] \in {"None", "Empty"}

\* main is past step k (it went on, ended, or was aborted by a raise)
Past(k) == ms_pc \notin 1..k

\* C8: the providers are requested in the order CryptoCompare, CoinGecko,
\* Kraken, Coinbase; provider k+1 is requested only if the download of each
\* of the providers 1..k gave None or an empty list, and it is requested
\* whenever they all did; so no provider is requested after one that gave
\* non-empty data.
C8_FallbackOrder ==
    /\ ms_requested = SubSeq(Providers, 1, Len(ms_requested))
    /\ \A k \in 1..3 :
          /\ Requested(k + 1) => \A j \in 1..k : GaveNothing(j)
          /\ (Past(k + 1) /\ \A j \in 1..k : GaveNothing(j)) => Requested(k + 1)
    /\ \A k \in 1..4 :
          (Requested(k) /\ Past(k) /\ ~ GaveNothing(k)) => Len(ms_requested) = k

\* main has ended after CryptoCompare and CoinGecko gave nothing and Kraken
\* gave rows: Coinbase was not requested
C8_Witness ==
    /\ ms_pc = 0
    /\ ms_requested = <<"CryptoCompare", "CoinGecko", "Kraken">>
    /\ GaveNothing(1) /\ GaveNothing(2) /\ ms_returned[3] = "Rows"
    /\ ms_files = OutputFiles

\* C9 as stated: when main is over, the three files are written if and only
\* if some provider returned non-empty data; and when all four gave nothing,
\* no file is written and the diagnostic is printed.
C9_FilesIffData ==
    ms_pc \in {0, -1} =>
        /\ (ms_files = OutputFiles) <=> (\E k \in 1..4 : DataTruthy(ms_returned[k]))
        /\ ms_files \in {<< >>, OutputFiles}
        /\ (\A k \in 1..4 : GaveNothing(k)) => (ms_files = << >> /\ ms_diag)

\* the answers C10 speaks of: the request raises or the body cannot be
\* decoded, the status is not a success, the payload cannot be converted
FailureKinds == {"exception", "http_error", "bad_rows"}

\* C10 as stated: a provider whose answer is such a failure does not abort
\* main, and the next provider, if there is one, is requested.
C10_FailureAdvancesChain ==
    \A k \in 1..4 :
        ms_response[k] \in FailureKinds =>
            /\ ms_pc # -1
            /\ (k < 4 /\ Past(k + 1)) => Requested(k + 1)

(***************************************************************************)
(* Properties of the live launcher                                         *)
(***************************************************************************)
\* what the launcher does once it goes on: it loads the configuration, reads
\* the environment, constructs and runs the node
StartupEffects == {"makedirs", "config_loaded", "env_lookup", "node_constructed", "node_run"}

\* the launcher has stopped at the prompt and done nothing else
AbortedAtPrompt ==
    /\ ln_pc = "done"
    /\ ln_exit = "cancelled"
    /\ ln_effects \cap StartupEffects = {}

SelectedKey == IF ln_mainnet THEN "BYBIT_API_KEY" ELSE "BYBIT_TESTNET_API_KEY"

SelectedSecret == IF ln_mainnet THEN "BYBIT_API_SECRET" ELSE "BYBIT_TESTNET_API_SECRET"

\* C12: if the key or the secret selected by the testnet flag is absent or
\* empty, the node is never constructed or run, and once the credentials
\* have been read the launcher has halted with the configuration error.
C12_MissingCredentialsHalt ==
    (ln_env[SelectedKey] \in {"absent", ""} \/ ln_env[SelectedSecret] \in {"absent", ""}) =>
        /\ ln_effects \cap {"node_constructed", "node_run", "construct_failed"} = {}
        /\ ln_pc \notin {"try", "running"}
        /\ "env_lookup" \in ln_effects => (ln_pc = "raised" /\ ln_exit = "ValueError")

\* a testnet start with the testnet secret empty, the testnet key and the
\* mainnet pair set: the launcher has halted with the error
C12_Witness ==
    /\ ~ ln_mainnet
    /\ ln_env["BYBIT_TESTNET_API_KEY"] = "cred" /\ ln_env["BYBIT_TESTNET_API_SECRET"] = ""
    /\ ln_env["BYBIT_API_KEY"] = "cred" /\ ln_env["BYBIT_API_SECRET"] = "cred"
    /\ ln_pc = "raised" /\ ln_exit = "ValueError"

\* C13: whichever way the session ends (the run returns, raises, or is
\* interrupted; or the node cannot be constructed), the try statement ends
\* with the shutdown message; an Exception is logged and not re-raised:
\* run_grid_strategy returns normally.
C13_ShutdownAlways ==
    /\ (ln_end # "none" \/ ln_effects \cap {"node_constructed", "construct_failed"} # {}) =>
          (ln_pc = "running" \/ "stopped_logged" \in ln_effects)
    /\ ln_end # "none" => "stopped_logged" \in ln_effects
    /\ ln_end = "Exception" =>
          /\ "exception_logged" \in ln_effects
          /\ ln_pc = "done" /\ ln_exit = "returned"
    /\ ln_end = "KeyboardInterrupt" => "stop_signal_logged" \in ln_effects

\* a running session has ended with an Exception, and the launcher returned
C13_Witness ==
    /\ ln_end = "Exception" /\ "node_run" \in ln_effects
    /\ "stopped_logged" \in ln_effects
    /\ ln_exit = "returned"

\* a session ended by the interrupt has been shut down too
C13_WitnessInterrupt ==
    /\ ln_end \in {"KeyboardInterrupt", "CancelledError"}
    /\ "stopped_logged" \in ln_effects

(***************************************************************************)
(* Properties of the real-data backtest bounds                             *)
(***************************************************************************)
RLe(a, b) == ~ RLt(b, a)

\* C14: for every mean and every std >= 0 the bounds given to the strategy
\* are upper = min(mean + 1.5 std, mean + 500), lower = max(mean - 1.5 std,
\* mean - 500), so mean - 500 <= lower <= mean <= upper <= mean + 500; for
\* mean 42000 and std 800 they are 41500 and 42500.
C14_ClampedBounds ==
    (br_pc = "configured" /\ ~ IsNaN(br_std)) =>
        LET half == RMul(Rat(3, 2), br_std)
            w    == IF RLt(half, R(500)) THEN half ELSE R(500)
        IN  /\ br_bounds.upper = RAdd(br_mean, w)
            /\ br_bounds.lower = RSub(br_mean, w)
            /\ RLe(RSub(br_mean, R(500)), br_bounds.lower)
            /\ RLe(br_bounds.lower, br_mean)
            /\ RLe(br_mean, br_bounds.upper)
            /\ RLe(br_bounds.upper, RAdd(br_mean, R(500)))
            /\ (br_mean = R(42000) /\ br_std = R(800)) =>
                  /\ br_suggested = [lower |-> R(40800), upper |-> R(43200)]
                  /\ br_bounds = [lower |-> R(41500), upper |-> R(42500)]

\* the example: mean 42000, std 800, bounds clamped to 41500..42500
C14_Witness ==
    /\ br_pc = "configured"
    /\ br_mean = R(42000) /\ br_std = R(800)
    /\ br_bounds = [lower |-> R(41500), upper |-> R(42500)]

(***************************************************************************)
(* Properties of the quote rows                                            *)
(***************************************************************************)
\* C15 as stated: every quote row the generator or a downloader constructs
\* has bid_price < ask_price and bid_size, ask_size >= 0.
C15_QuoteRowInvariant ==
    \A i \in DOMAIN qr_rows :
        /\ FLt(qr_rows[i].bid_price, qr_rows[i].ask_price)
        /\ ~ IsNaN(qr_rows[i].bid_size) /\ RLe(R(0), qr_rows[i].bid_size)
        /\ ~ IsNaN(qr_rows[i].ask_size) /\ RLe(R(0), qr_rows[i].ask_size)

(***************************************************************************)
(* Properties of the persisted timestamp index                             *)
(***************************************************************************)
\* C16 as stated: every quote table a downloader persists has a strictly
\* increasing (hence duplicate-free) timestamp index, whatever the page
\* boundaries and the row order of the provider.
C16_IndexStrictlyIncreasing ==
    ix_pc = "saved" =>
        \A i \in 1..(Len(ix_index) - 1) : ix_index[i] < ix_index[i + 1]

(***************************************************************************)
(* Properties of the Grid Strategy's order book and timers                 *)
(***************************************************************************)
\* C17 as stated: in every reachable state grid_orders (price -> order id)
\* and active_orders (order id -> price) are inverses of each other:
\* grid_orders[p] = id if and only if active_orders[id] = p.
C17_MapsAreInverses ==
    /\ \A p \in DOMAIN grid_orders :
          /\ grid_orders[p] \in DOMAIN active_orders
          /\ active_orders[grid_orders[p]] = p
    /\ \A id \in DOMAIN active_orders :
          /\ active_orders[id] \in DOMAIN grid_orders
          /\ grid_orders[active_orders[id]] = id

\* C18 as stated: a firing while no quote is cached places no order, leaves
\* bounds, grid prices and order maps unchanged, and leaves exactly one
\* further firing scheduled, that of the 5-second retry timer.
C18_RetryWithoutQuote ==
    [][(cache_quote = NoQuote /\ TimerFires) =>
          /\ UNCHANGED <<orders, upper_price, lower_price, grid_prices,
                         grid_orders, active_orders>>
          /\ timers' = {"init_grid_retry"}]_vars

\* C20 as stated: between one on_start and the next reset the initial order
\* set is placed at most once: once orders were placed (grid_orders has an
\* entry until reset), no firing of the initialization callback places the
\* initial orders again.
C20_InitialOrdersOnce ==
    [][(grid_orders # EmptyMap /\ cache_quote # NoQuote) => ~ TimerFires]_vars

Submitted == (Len(orders) + 1)..Len(orders')

\* C21: a firing of the initialization with mid price m submits no order at
\* a grid price p with |p - m| / m < 0.001; for every other grid price it
\* submits exactly one order, a BUY if p < m and a SELL if p > m, of
\* quantity (total_amount / grid_levels) / p (to the six decimals an order
\* carries), recorded in grid_orders and in active_orders.
C21_InitialPlacement ==
    [][(cache_quote # NoQuote /\ TimerFires) =>
          LET m  == MidPrice(cache_quote)
              at(q) == {id \in Submitted : orders'[id].level = q}
          IN  /\ \A id \in Submitted :
                    \E i \in DOMAIN grid_prices' : orders'[id].level = grid_prices'[i]
              /\ \A i \in DOMAIN grid_prices' :
                    LET q == grid_prices'[i]
                    IN  IF RLt(RDiv(RAbs(RSub(q, m)), m), Rat(1, 1000))
                        THEN at(q) = {}
                        ELSE /\ Cardinality(at(q)) = 1
                             /\ \A id \in at(q) :
                                   /\ orders'[id].side = IF RLt(q, m) THEN "BUY" ELSE "SELL"
                                   /\ orders'[id].qty =
                                         FormatQuantity(RDiv(cfg.total_amount,
                                                             R(cfg.grid_levels)), q)
                                   /\ orders'[id].status = OPEN
                                   /\ q \in DOMAIN grid_orders' /\ grid_orders'[q] = id
                                   /\ id \in DOMAIN active_orders'
                                   /\ active_orders'[id] = q]_vars

\* an initial placement with a BUY below the mid price, a SELL above it and
\* the level at the mid price left out
C21_Witness ==
    /\ gs_state = "RUNNING"
    /\ Len(grid_prices) = 3
    /\ Len(orders) = 2
    /\ orders[1].side = "BUY" /\ orders[2].side = "SELL"
    /\ orders[1].level = grid_prices[1] /\ orders[2].level = grid_prices[3]
    /\ DOMAIN active_orders = {1, 2}

(***************************************************************************)
(* Properties of the pagination loops                                      *)
(***************************************************************************)
\* the request and the response of the latest turn of the loop
LastRequest == pg_requests[Len(pg_requests)]

LastResponse == pg_responses[Len(pg_responses)]

\* C22 as stated: in the Binance loop the request after a non-empty page
\* starts at (last row's open time + 1) and is made only while that start is
\* before the end; after the first empty, malformed or failed response no
\* further page is requested and the rows accumulated so far are returned.
C22_BinancePagination ==
    pg_src = "Binance" =>
        /\ \A k \in 1..Len(pg_requests) :
              /\ pg_requests[k] < pg_end
              /\ k > 1 =>
                    /\ pg_responses[k - 1].kind = "page"
                    /\ pg_requests[k] =
                          pg_responses[k - 1].rows[Len(pg_responses[k - 1].rows)] + 1
        /\ (pg_responses # << >> /\ LastResponse.kind # "page") => pg_pc = "returned"

NoRowTwice ==
    \A k, l \in DOMAIN pg_responses :
        (k < l /\ pg_responses[k].kind = "page" /\ pg_responses[l].kind = "page") =>
            \A i \in DOMAIN pg_responses[k].rows, j \in DOMAIN pg_responses[l].rows :
                pg_responses[k].rows[i] # pg_responses[l].rows[j]

\* every non-empty page so far ended with a row at or after the start of
\* its request
LastRowNotBeforeStart ==
    \A k \in DOMAIN pg_responses :
        pg_responses[k].kind = "page" =>
            pg_responses[k].rows[Len(pg_responses[k].rows)] >= pg_requests[k]

\* every non-empty page so far held rows at or after the start of its
\* request only, in strictly ascending order of open time
AscendingFromStart ==
    \A k \in DOMAIN pg_responses :
        LET rows == pg_responses[k].rows
        IN  pg_responses[k].kind = "page" =>
                /\ rows[1] >= pg_requests[k]
                /\ \A i \in 1..(Len(rows) - 1) : rows[i] < rows[i + 1]

\* the window start grew with every request, and the requests are no more
\* than the open times there are, plus one
StartsIncreaseAndEnd ==
    /\ \A k \in 1..(Len(pg_requests) - 1) : pg_requests[k] < pg_requests[k + 1]
    /\ pg_requests # << >> => LastRequest <= pg_start
    /\ Len(pg_requests) <= MaxOpenTimes + 1
    /\ Len(pg_requests) = MaxOpenTimes + 1 => pg_pc # "loop"

WellFormed == \A k \in DOMAIN pg_responses : pg_responses[k].kind # "bad_rows"

\* C30 as stated: if every non-empty page has a last row at or after the
\* requested start, the window start strictly increases, the loop ends
\* after finitely many requests, and no row is fetched twice across pages.
C30_BinanceTerminatesNoRowTwice ==
    (pg_src = "Binance" /\ WellFormed /\ LastRowNotBeforeStart) =>
        (StartsIncreaseAndEnd /\ NoRowTwice)

\* C30 amended: under that premise the window start strictly increases and
\* the loop ends after finitely many requests; no row is fetched twice if
\* moreover every page holds rows at or after its requested start only, in
\* strictly ascending order.
C30_BinanceTerminates ==
    (pg_src = "Binance" /\ WellFormed) =>
        /\ LastRowNotBeforeStart => StartsIncreaseAndEnd
        /\ AscendingFromStart => (StartsIncreaseAndEnd /\ NoRowTwice)

\* a run of three pages, ascending from the requested start, that came to
\* its end
C30_Witness ==
    /\ pg_src = "Binance" /\ pg_pc = "returned"
    /\ AscendingFromStart /\ WellFormed
    /\ Len(pg_requests) >= 3
    /\ Len(pg_all) = MaxOpenTimes

\* C24: after every reset the grid-order map, the filled-grid set and the
\* active-order map are empty and total_trades, winning_trades and
\* total_pnl are 0.
C24_ResetClears ==
    [][(gs_state = "STOPPED" /\ gs_state' = "READY") =>
          /\ DOMAIN grid_orders' = {}
          /\ filled_grids' = {}
          /\ DOMAIN active_orders' = {}
          /\ total_trades' = 0
          /\ winning_trades' = 0
          /\ total_pnl' = 0]_vars

\* a strategy that was reset after a run with orders and a counted fill
C24_Witness ==
    /\ gs_state = "READY"
    /\ \E id \in DOMAIN orders : orders[id].status = "filled"
    /\ \E id \in DOMAIN orders : orders[id].status = "canceled"
    /\ DOMAIN grid_orders = {} /\ DOMAIN active_orders = {}
    /\ total_trades = 0

\* C25 as stated: between a grid initialization and the next reset no order
\* is submitted at a grid price that has received an order already (the
\* prices that have are the keys of grid_orders, which only reset removes),
\* and no two orders of one step go to the same price: each grid price
\* hosts at most one order and the orders are at most grid_levels.
C25_OneOrderPerGridPrice ==
    [][\A id \in Submitted :
          /\ orders'[id].level \notin DOMAIN grid_orders
          /\ \A other \in Submitted :
                other # id => orders'[other].level # orders'[id].level]_vars

\* C26 as stated: in every reachable state every order id in active_orders
\* refers to an order that is still open at the venue.
C26_ActiveOrdersAreOpen ==
    \A id \in DOMAIN active_orders : orders[id].status \in {OPEN, "partial"}

\* the order a fill event of the step is for: the one whose open quantity fell
FilledBy(id) == id \in DOMAIN orders /\ orders'[id].leaves < orders[id].leaves

\* C27: a fill event for an id in active_orders adds exactly 1 to
\* total_trades, takes the id out of active_orders and submits at most one
\* order, of the opposite side; a fill event for an id that is not in
\* active_orders (a further fill of the same order) leaves total_trades,
\* both maps and the orders submitted unchanged.
C27_CountedAndAnsweredOnce ==
    [][\A id \in DOMAIN orders :
          FilledBy(id) =>
             IF id \in DOMAIN active_orders
             THEN /\ total_trades' = total_trades + 1
                  /\ id \notin DOMAIN active_orders'
                  /\ Len(orders') <= Len(orders) + 1
                  /\ \A new \in Submitted :
                        orders'[new].side = (IF orders[id].side = "BUY" THEN "SELL" ELSE "BUY")
             ELSE /\ total_trades' = total_trades
                  /\ grid_orders' = grid_orders
                  /\ active_orders' = active_orders
                  /\ Len(orders') = Len(orders)]_vars

\* an order filled by two events, counted once and answered once
C27_Witness ==
    /\ gs_state = "RUNNING"
    /\ total_trades = 1
    /\ \E id, r \in DOMAIN orders :
          /\ orders[id].status = "filled"
          /\ orders[r].reply_to = id
          /\ orders[r].fill_qty < orders[id].qty
          /\ \A other \in DOMAIN orders : orders[other].reply_to = id => other = r

\* C28 as stated: on_quote_tick completes without error for every quote
\* delivered to a started strategy, also before the grid initialization
\* has derived bounds that were left unconfigured.
C28_QuoteTickCompletes ==
    [][\A tick \in Quotes : QuoteArrives(tick) => ~ on_quote_tick_raises(tick)]_vars

\* C29: reset leaves upper_price, lower_price and grid_prices unchanged,
\* and bounds that are set (configured, or derived in an earlier run) are
\* never derived again, whatever the mid price of a later start.
C29_ResetKeepsBounds ==
    [][/\ (gs_state = "STOPPED" /\ gs_state' = "READY") =>
             UNCHANGED <<upper_price, lower_price, grid_prices>>
       /\ (upper_price # NoneVal /\ lower_price # NoneVal) =>
             UNCHANGED <<upper_price, lower_price>>]_vars

\* a second run on the bounds derived in the first: the first run derived
\* them around a mid price of 1000.60 and was stopped (its orders are
\* cancelled) and reset; the second initialization, at a mid price of
\* 42000, put a BUY at the top level of the old range
C29_Witness ==
    /\ cfg.upper_price = NoneVal
    /\ gs_state = "RUNNING"
    /\ upper_price = Rat(105063, 100) /\ lower_price = Rat(95057, 100)
    /\ MidPrice(cache_quote) = R(42000)
    /\ \E id \in DOMAIN orders : orders[id].status = "canceled"
    /\ \E id \in DOMAIN active_orders :
          /\ orders[id].status = OPEN /\ orders[id].side = "BUY"
          /\ orders[id].level = upper_price

=============================================================================
